---- MODULE Spec2Model ----
(***************************************************************************)
(* Model of cluster/bootstrap/joiner.go: one invocation of Joiner.Do over  *)
(* a remoteNodes map, against an arbitrary PeerJoiner and a context that   *)
(* may be cancelled at any moment.                                         *)
(*                                                                         *)
(* Node ids and Raft addresses are strings in the source; here both are    *)
(* the numbers 1..MaxNodes, node n resolving to the address n, and NoAddr  *)
(* is the empty string.  The maps passed to Do hold any subset of the      *)
(* nodes, each at its own address; a leader named by a response may be any *)
(* address, in the map or not, the local node's included.                  *)
(*                                                                         *)
(* Spec is Do on its own; FairSpec adds that Do's own steps keep being     *)
(* taken; BootSpec is the startup path around Do: ResolveRemoteNodes and   *)
(* the choice between bootstrap/notify and Joiner.Do.                      *)
(***************************************************************************)
EXTENDS Integers, Sequences, FiniteSets, TLC

\* ---------------------------------------------------------------- bounds
MaxNodes == 3

NodeIDs == 1..MaxNodes
Addrs == 1..MaxNodes

\* the Raft address node n resolves to
AddrOf(n) == n

\* the empty string "" (an absent leader, the address returned with an error)
NoAddr == 0

\* status codes of a failed Join (status.Convert(err).Code())
Codes == {"ResourceExhausted", "Unavailable"}

\* every map[string]string the caller may pass as remoteNodes
RemoteNodeMaps == {[n \in S |-> AddrOf(n)] : S \in SUBSET NodeIDs}

VARIABLES
    j,            \* the Joiner: localNodeID, localRaftAddr, voter
    remoteNodes,  \* the map passed to Do
    cancelled,    \* ctx.Done() is closed
    pc,           \* position of Do
    visited,      \* keys the range loop has already produced
    name,         \* loop variable: key of the current entry
    addr,         \* loop variable: value of the current entry
    leader,       \* resp.GetLeader() of the candidate's response
    err,          \* the err variable of Do
    errors,       \* the errors slice of Do
    ret,          \* what Do returned: [addr, err]
    boot,         \* the startup path around Do: cluster state, resolved map, route taken
    cancelAt,     \* history: where Do stood (pc) and how long the trace was (pos) when ctx was cancelled
    trace         \* what the PeerJoiner and the clock saw: Join calls and backoff waits

vars == <<boot, j, remoteNodes, cancelled, pc, visited, name, addr, leader, err, errors, ret, cancelAt, trace>>

\* ------------------------------------------------------------- values
NoErr == [kind |-> "nil"]

\* ctx.Err()
CtxErr == [kind |-> "ctx"]

\* the error of the Join call recorded at position rpc of the trace
JoinErr(code, rpc) == [kind |-> "join", code |-> code, rpc |-> rpc]

\* mutant: the request always asks to join as a voter
Request_AlwaysVoter(jn) == [id |-> jn.localNodeID, address |-> jn.localRaftAddr, voter |-> TRUE]

\* req := &cmd.JoinPeerRequest{Id: ..., Address: ..., Voter: ...}
Request(jn) == [id |-> jn.localNodeID, address |-> jn.localRaftAddr, voter |-> jn.voter]

\* fmt.Sprintf("%s(%s): %v", name, addr, err)
NodeFailure(n, a, e) == [tag |-> "node", name |-> n, addr |-> a, err |-> e]

\* fmt.Sprintf("leader(%s): %v", leader, err)
LeaderFailure(l, e) == [tag |-> "leader", name |-> 0, addr |-> l, err |-> e]

\* mutant: the message leaves out the remoteNodes map
ExhaustedErr_NoMap(nodes, errs) ==
    IF Len(errs) > 0
    THEN [kind |-> "exhausted", nodes |-> <<>>, detail |-> errs]
    ELSE [kind |-> "exhausted", nodes |-> <<>>]

\* mutant: with no recorded failure Do returns "", nil
ExhaustedErr_SilentOk(nodes, errs) ==
    IF Len(errs) > 0
    THEN [kind |-> "exhausted", nodes |-> nodes, detail |-> errs]
    ELSE NoErr

\* fmt.Errorf("could not join a cluster from %v: %s", remoteNodes, strings.Join(errors, "; "))
\* and, with no recorded failure, fmt.Errorf("could not join a cluster from %v", remoteNodes)
ExhaustedErr(nodes, errs) ==
    IF Len(errs) > 0
    THEN [kind |-> "exhausted", nodes |-> nodes, detail |-> errs]
    ELSE [kind |-> "exhausted", nodes |-> nodes]

\* if name == j.localNodeID
IsSelf(n, jn) == n = jn.localNodeID

\* mutant: any failure whose response names a leader is followed
ShouldFollow_AnyCode(code, l) == l # NoAddr

\* mutant: the status code compared is the NOT_FOUND of the comment above the loop
ShouldFollow_NotFound(code, l) == code = "NotFound" /\ l # NoAddr

\* st.Code() == codes.ResourceExhausted && leader != ""
ShouldFollow(code, l) == code = "ResourceExhausted" /\ l # NoAddr

\* a Join call as the PeerJoiner sees it; res is "pending" until it returns
JoinEvent(kind, n, dest, req, ctxDone) ==
    [type |-> "join", kind |-> kind, name |-> n, dest |-> dest, req |-> req,
     ctxDone |-> ctxDone, res |-> "pending", code |-> "", leader |-> NoAddr]

\* the select of the backoff wait being entered
BackoffEvent == [type |-> "backoff"]

\* the responses a PeerJoiner can give: success, or an error with a status
\* code and a response whose leader field may be empty.  With ResourceExhausted
\* the leader may be any address; with another code, where Do never reads which
\* address it is, it is absent or one given address.
Outcomes ==
    {[ok |-> TRUE, code |-> "", leader |-> NoAddr]}
    \cup {[ok |-> FALSE, code |-> "ResourceExhausted", leader |-> l] : l \in {NoAddr} \cup Addrs}
    \cup {[ok |-> FALSE, code |-> c, leader |-> l] :
            c \in Codes \ {"ResourceExhausted"}, l \in {NoAddr, AddrOf(1)}}

\* the last trace entry completed with the response
Answered(tr, o) ==
    [tr EXCEPT ![Len(tr)] =
        [@ EXCEPT !.res = IF o.ok THEN "ok" ELSE "fail", !.code = o.code, !.leader = o.leader]]

\* the last trace entry completed with the result of a call whose response is
\* dropped: _, err = j.peerJoiner.Join(ctx, leader, req)
AnsweredErrOnly(tr, o) ==
    [tr EXCEPT ![Len(tr)] =
        [@ EXCEPT !.res = IF o.ok THEN "ok" ELSE "fail", !.code = o.code]]

\* Do called on its own, as by a test of the Joiner: no startup path around it
NoBoot == [phase |-> "direct"]

\* ---------------------------------------------------------------- Init
Init ==
    /\ boot = NoBoot
    /\ j \in [localNodeID : {1}, localRaftAddr : {AddrOf(1)}, voter : BOOLEAN]
    /\ remoteNodes \in RemoteNodeMaps
    /\ cancelled \in BOOLEAN
    /\ cancelAt = [pc |-> IF cancelled THEN "before" ELSE "never", pos |-> 0]
    /\ pc = "range"
    /\ visited = {}
    /\ name = 0
    /\ addr = NoAddr
    /\ leader = NoAddr
    /\ err = NoErr
    /\ errors = <<>>
    /\ ret = [addr |-> NoAddr, err |-> NoErr]
    /\ trace = <<>>

\* ------------------------------------------------------------- actions
\* the caller cancels the context (or its deadline passes)
Cancel ==
    /\ ~cancelled
    /\ pc # "done"
    /\ cancelled' = TRUE
    /\ cancelAt' = [pc |-> pc, pos |-> Len(trace)]
    /\ UNCHANGED <<boot, j, remoteNodes, pc, visited, name, addr, leader, err, errors, ret, trace>>

\* mutant: the local node's entry is deleted from the caller's map when skipped
RangeSkipSelf_Delete ==
    /\ pc = "range"
    /\ \E n \in DOMAIN remoteNodes \ visited :
        /\ IsSelf(n, j)
        /\ remoteNodes' = [m \in DOMAIN remoteNodes \ {n} |-> remoteNodes[m]]
        /\ visited' = visited
        /\ name' = n
        /\ addr' = remoteNodes[n]
    /\ UNCHANGED <<boot, j, cancelled, cancelAt, pc, leader, err, errors, ret, trace>>

\* for name, addr := range remoteNodes { if name == j.localNodeID { continue }
RangeSkipSelf ==
    /\ pc = "range"
    /\ \E n \in DOMAIN remoteNodes \ visited :
        /\ IsSelf(n, j)
        /\ visited' = visited \cup {n}
        /\ name' = n
        /\ addr' = remoteNodes[n]
    /\ UNCHANGED <<boot, j, remoteNodes, cancelled, cancelAt, pc, leader, err, errors, ret, trace>>

\* the next entry is not the local node: resp, err = j.peerJoiner.Join(ctx, addr, req) is called
RangeJoin ==
    /\ pc = "range"
    /\ \E n \in DOMAIN remoteNodes \ visited :
        /\ ~IsSelf(n, j)
        /\ visited' = visited \cup {n}
        /\ name' = n
        /\ addr' = remoteNodes[n]
        /\ trace' = Append(trace, JoinEvent("candidate", n, remoteNodes[n], Request(j), cancelled))
    /\ pc' = "join"
    /\ UNCHANGED <<boot, j, remoteNodes, cancelled, cancelAt, leader, err, errors, ret>>

\* mutant: a success returns the candidate's address, also after a leader-follow
JoinOk_CandidateAddr(a) ==
    /\ pc' = "done"
    /\ ret' = [addr |-> addr, err |-> NoErr]

\* mutant: a successful Join does not return; the loop goes on
JoinOk_Continue(a) ==
    /\ pc' = "backoff"
    /\ UNCHANGED ret

\* if err == nil { return addr, nil }   (and return leader, nil)
JoinOk(a) ==
    /\ pc' = "done"
    /\ ret' = [addr |-> a, err |-> NoErr]

\* the candidate's Join returns: success returns addr; ResourceExhausted with a
\* leader goes on to the leader; any other failure is recorded and the backoff begins
JoinReturn ==
    /\ pc = "join"
    /\ \E o \in Outcomes :
        IF o.ok
        THEN /\ trace' = Answered(trace, o)
             /\ JoinOk(addr)
             /\ err' = NoErr
             /\ leader' = o.leader
             /\ UNCHANGED errors
        ELSE /\ err' = JoinErr(o.code, Len(trace))
             /\ leader' = o.leader
             /\ IF ShouldFollow(o.code, o.leader)
                THEN /\ trace' = Answered(trace, o)
                     /\ pc' = "follow"
                     /\ UNCHANGED <<errors, ret>>
                ELSE /\ trace' = Append(Answered(trace, o), BackoffEvent)
                     /\ pc' = "backoff"
                     /\ errors' = Append(errors, NodeFailure(name, addr, JoinErr(o.code, Len(trace))))
                     /\ UNCHANGED ret
    /\ UNCHANGED <<boot, j, remoteNodes, cancelled, cancelAt, visited, name, addr>>

\* _, err = j.peerJoiner.Join(ctx, leader, req) is called
LeaderJoin ==
    /\ pc = "follow"
    /\ trace' = Append(trace, JoinEvent("leader", name, leader, Request(j), cancelled))
    /\ pc' = "leaderJoin"
    /\ UNCHANGED <<boot, j, remoteNodes, cancelled, cancelAt, visited, name, addr, leader, err, errors, ret>>

\* mutant: a failed leader-follow that names a leader is followed in turn
LeaderJoinReturn_Chase ==
    /\ pc = "leaderJoin"
    /\ \E o \in Outcomes :
        IF o.ok
        THEN /\ trace' = AnsweredErrOnly(trace, o)
             /\ JoinOk(leader)
             /\ err' = NoErr
             /\ UNCHANGED <<errors, leader>>
        ELSE /\ err' = JoinErr(o.code, Len(trace))
             /\ errors' = Append(errors, LeaderFailure(leader, JoinErr(o.code, Len(trace))))
             /\ UNCHANGED ret
             /\ IF ShouldFollow(o.code, o.leader)
                THEN /\ trace' = AnsweredErrOnly(trace, o)
                     /\ pc' = "follow"
                     /\ leader' = o.leader
                ELSE /\ trace' = Append(AnsweredErrOnly(trace, o), BackoffEvent)
                     /\ pc' = "backoff"
                     /\ UNCHANGED leader
    /\ UNCHANGED <<boot, j, remoteNodes, cancelled, cancelAt, visited, name, addr>>

\* mutant: a failed leader-follow ends the invocation with the leader's error
LeaderJoinReturn_Abort ==
    /\ pc = "leaderJoin"
    /\ \E o \in Outcomes :
        IF o.ok
        THEN /\ trace' = AnsweredErrOnly(trace, o)
             /\ JoinOk(leader)
             /\ err' = NoErr
             /\ UNCHANGED errors
        ELSE /\ trace' = AnsweredErrOnly(trace, o)
             /\ pc' = "done"
             /\ err' = JoinErr(o.code, Len(trace))
             /\ ret' = [addr |-> NoAddr, err |-> JoinErr(o.code, Len(trace))]
             /\ UNCHANGED errors
    /\ UNCHANGED <<boot, j, remoteNodes, cancelled, cancelAt, visited, name, addr, leader>>

\* the leader's Join returns: success returns leader; a failure is recorded
\* as the leader's and the backoff begins
LeaderJoinReturn ==
    /\ pc = "leaderJoin"
    /\ \E o \in Outcomes :
        IF o.ok
        THEN /\ trace' = AnsweredErrOnly(trace, o)
             /\ JoinOk(leader)
             /\ err' = NoErr
             /\ UNCHANGED errors
        ELSE /\ trace' = Append(AnsweredErrOnly(trace, o), BackoffEvent)
             /\ pc' = "backoff"
             /\ err' = JoinErr(o.code, Len(trace))
             /\ errors' = Append(errors, LeaderFailure(leader, JoinErr(o.code, Len(trace))))
             /\ UNCHANGED ret
    /\ UNCHANGED <<boot, j, remoteNodes, cancelled, cancelAt, visited, name, addr, leader>>

\* mutant: a cancelled wait returns the context's error along with the last address tried
BackoffCtxDone_KeepAddr ==
    /\ pc = "backoff"
    /\ cancelled
    /\ pc' = "done"
    /\ ret' = [addr |-> addr, err |-> CtxErr]
    /\ UNCHANGED <<boot, j, remoteNodes, cancelled, cancelAt, visited, name, addr, leader, err, errors, trace>>

\* mutant: a cancelled wait returns the candidates-exhausted error
BackoffCtxDone_Exhausted ==
    /\ pc = "backoff"
    /\ cancelled
    /\ pc' = "done"
    /\ ret' = [addr |-> NoAddr, err |-> ExhaustedErr(remoteNodes, errors)]
    /\ UNCHANGED <<boot, j, remoteNodes, cancelled, cancelAt, visited, name, addr, leader, err, errors, trace>>

\* select: case <-ctx.Done(): return "", ctx.Err()
BackoffCtxDone ==
    /\ pc = "backoff"
    /\ cancelled
    /\ pc' = "done"
    /\ ret' = [addr |-> NoAddr, err |-> CtxErr]
    /\ UNCHANGED <<boot, j, remoteNodes, cancelled, cancelAt, visited, name, addr, leader, err, errors, trace>>

\* mutant: the wait is a plain time.Sleep that ignores the context
BackoffElapsed_Sleep ==
    /\ pc = "backoff"
    /\ pc' = "range"
    /\ UNCHANGED <<boot, j, remoteNodes, cancelled, cancelAt, visited, name, addr, leader, err, errors, ret, trace>>

\* select: case <-time.After(50 * time.Millisecond): the wait ends with the
\* context still open (the channel that becomes ready first decides the select)
BackoffElapsed ==
    /\ pc = "backoff"
    /\ ~cancelled
    /\ pc' = "range"
    /\ UNCHANGED <<boot, j, remoteNodes, cancelled, cancelAt, visited, name, addr, leader, err, errors, ret, trace>>

\* mutant: Do gives up after the first entry instead of ranging over all of them
RangeEnd_Early ==
    /\ pc = "range"
    /\ visited # {} \/ DOMAIN remoteNodes = {}
    /\ pc' = "done"
    /\ ret' = [addr |-> NoAddr, err |-> ExhaustedErr(remoteNodes, errors)]
    /\ UNCHANGED <<boot, j, remoteNodes, cancelled, cancelAt, visited, name, addr, leader, err, errors, trace>>

\* the range is over: return "", fmt.Errorf("could not join a cluster from ...")
RangeEnd ==
    /\ pc = "range"
    /\ visited = DOMAIN remoteNodes
    /\ pc' = "done"
    /\ ret' = [addr |-> NoAddr, err |-> ExhaustedErr(remoteNodes, errors)]
    /\ UNCHANGED <<boot, j, remoteNodes, cancelled, cancelAt, visited, name, addr, leader, err, errors, trace>>

Next ==
    \/ Cancel
    \/ RangeSkipSelf
    \/ RangeJoin
    \/ JoinReturn
    \/ LeaderJoin
    \/ LeaderJoinReturn
    \/ BackoffCtxDone
    \/ BackoffElapsed
    \/ RangeEnd

Spec == Init /\ [][Next]_vars

\* the steps of Do itself: every Join returns, the 50 ms timer fires, and the
\* goroutine keeps running; only the cancellation is up to the caller
DoStep ==
    \/ RangeSkipSelf
    \/ RangeJoin
    \/ JoinReturn
    \/ LeaderJoin
    \/ LeaderJoinReturn
    \/ BackoffCtxDone
    \/ BackoffElapsed
    \/ RangeEnd

FairSpec == Spec /\ WF_vars(DoStep)

TypeOK ==
    /\ pc \in {"range", "join", "follow", "leaderJoin", "backoff", "done"}
    /\ visited \subseteq DOMAIN remoteNodes
    /\ cancelled \in BOOLEAN
    /\ cancelled <=> cancelAt.pc # "never"

\* ------------------------------------------- resolver and decision layer
\* The startup path around Do: ResolveRemoteNodes and the choice between
\* bootstrap/notify and Joiner.Do.  Here a resolved Raft address "host:port" is
\* the pair <<host, port>>.

\* the Raft ports a node may be configured with
Ports == {8300, 8301}

\* every addresses map of a cluster-state reader: each known node has its
\* own host, or "" while it cannot be resolved
ReaderStates ==
    UNION {{[n \in S |-> IF n \in R THEN AddrOf(n) ELSE NoAddr] : R \in SUBSET S} :
           S \in SUBSET NodeIDs}

\* func (m *mockClusterStateReader) NodeAddress(id string) string { return m.addresses[id] }
NodeAddress(addresses, id) == IF id \in DOMAIN addresses THEN addresses[id] ELSE NoAddr

\* fmt.Sprintf("%s:%d", addr, raftPort)
HostPort(h, p) == <<h, p>>

\* mutant: a node is included whether or not its address resolved
ResolveEntry_KeepEmpty(addresses, ports, id, acc) ==
    [n \in DOMAIN acc \cup {id} |->
        IF n = id THEN HostPort(NodeAddress(addresses, id), ports[id]) ELSE acc[n]]

\* one node of the resolver's loop: included with its own port when its
\* address resolves non-empty, left out otherwise
ResolveEntry(addresses, ports, id, acc) ==
    IF NodeAddress(addresses, id) # NoAddr
    THEN [n \in DOMAIN acc \cup {id} |->
            IF n = id THEN HostPort(NodeAddress(addresses, id), ports[id]) ELSE acc[n]]
    ELSE acc

RECURSIVE ResolveFrom(_, _, _, _)
\* the resolver's loop over the nodes the reader knows
ResolveFrom(ids, addresses, ports, acc) ==
    IF ids = {}
    THEN acc
    ELSE LET id == CHOOSE x \in ids : TRUE
         IN  ResolveFrom(ids \ {id}, addresses, ports, ResolveEntry(addresses, ports, id, acc))

\* bootstrap.ResolveRemoteNodes(reader, serverPortMap)
ResolveRemoteNodes(addresses, ports) == ResolveFrom(DOMAIN addresses, addresses, ports, <<>>)

\* mutant: only an empty map is routed to bootstrap
ShouldBootstrap_EmptyOnly(nodes, localAddr) == DOMAIN nodes = {}

\* the single-node / self-join case: the map is empty, or its one entry is the
\* local node's own Raft address
ShouldBootstrap(nodes, localAddr) ==
    \/ DOMAIN nodes = {}
    \/ /\ Cardinality(DOMAIN nodes) = 1
       /\ \A n \in DOMAIN nodes : nodes[n] = localAddr

\* the Joiner is not running
DoIdle ==
    /\ j = [localNodeID |-> 1, localRaftAddr |-> AddrOf(1), voter |-> TRUE]
    /\ remoteNodes = <<>>
    /\ cancelled = FALSE
    /\ cancelAt = [pc |-> "never", pos |-> 0]
    /\ pc = "idle"
    /\ visited = {}
    /\ name = 0
    /\ addr = NoAddr
    /\ leader = NoAddr
    /\ err = NoErr
    /\ errors = <<>>
    /\ ret = [addr |-> NoAddr, err |-> NoErr]
    /\ trace = <<>>

doVars == <<j, remoteNodes, cancelled, pc, visited, name, addr, leader, err, errors, ret, cancelAt, trace>>

\* a node starts: some cluster state, a port per known node, its own Raft address
BootInit ==
    /\ DoIdle
    /\ \E addresses \in ReaderStates :
       \E ports \in [DOMAIN addresses -> Ports] :
       \E p \in Ports :
            boot = [phase |-> "start",
                    addresses |-> addresses,
                    ports |-> ports,
                    localName |-> 1,
                    localRaftAddr |-> HostPort(AddrOf(1), p),
                    resolved |-> <<>>,
                    founding |-> {},
                    doCalls |-> <<>>]

\* remoteNodes := bootstrap.ResolveRemoteNodes(reader, serverPortMap)
Resolve ==
    /\ boot.phase = "start"
    /\ boot' = [boot EXCEPT !.phase = "resolved",
                            !.resolved = ResolveRemoteNodes(boot.addresses, boot.ports)]
    /\ UNCHANGED doVars

\* single node or self-join: bootstrap/notify with the local node as sole
\* founding member, Joiner.Do is not called
DecideBootstrap ==
    /\ boot.phase = "resolved"
    /\ ShouldBootstrap(boot.resolved, boot.localRaftAddr)
    /\ boot' = [boot EXCEPT !.phase = "bootstrap", !.founding = {boot.localName}]
    /\ UNCHANGED doVars

\* any other case: Joiner.Do is called with the whole resolved map
DecideJoin ==
    /\ boot.phase = "resolved"
    /\ ~ShouldBootstrap(boot.resolved, boot.localRaftAddr)
    /\ boot' = [boot EXCEPT !.phase = "join", !.doCalls = Append(@, boot.resolved)]
    /\ UNCHANGED doVars

BootNext ==
    \/ Resolve
    \/ DecideBootstrap
    \/ DecideJoin

BootSpec == BootInit /\ [][BootNext]_vars

\* ------------------------------------------------- observations of a run
Joins == {i \in 1..Len(trace) : trace[i].type = "join"}
CandidateJoins == {i \in Joins : trace[i].kind = "candidate"}
LeaderJoins == {i \in Joins : trace[i].kind = "leader"}
Backoffs == {i \in 1..Len(trace) : trace[i].type = "backoff"}
FailedJoins == {i \in Joins : trace[i].res = "fail"}
NoJoinOk == \A i \in Joins : trace[i].res # "ok"
NonSelf == {n \in DOMAIN remoteNodes : n # j.localNodeID}
Untried == NonSelf \ visited
Returned == pc = "done"
Exhausted == Returned /\ ret.err.kind = "exhausted"

\* the recorded failures carried by a candidates-exhausted error
Detail(e) == IF "detail" \in DOMAIN e THEN e.detail ELSE <<>>

\* the text of the error contains the node name n / the address a
MentionsName(e, n) ==
    \/ n \in DOMAIN e.nodes
    \/ \E k \in 1..Len(Detail(e)) : Detail(e)[k].tag = "node" /\ Detail(e)[k].name = n
MentionsAddr(e, a) ==
    \/ \E n \in DOMAIN e.nodes : e.nodes[n] = a
    \/ \E k \in 1..Len(Detail(e)) : Detail(e)[k].addr = a

\* a backoff wait began, or was still going on, with the context cancelled
WaitSawCancel ==
    /\ cancelled
    /\ \E i \in Backoffs : i > cancelAt.pos \/ (i = cancelAt.pos /\ cancelAt.pc = "backoff")

\* ----------------------------------------------------------------- C1
\* C1: as soon as a candidate's Join returns no error, Do has returned that
\* candidate's address with a nil error, and that Join is the last one issued.
C1_SuccessShortCircuit ==
    \A i \in CandidateJoins :
        trace[i].res = "ok" =>
            /\ i = Len(trace)
            /\ Returned
            /\ ret = [addr |-> remoteNodes[trace[i].name], err |-> NoErr]
            /\ ret.addr = trace[i].dest

\* a candidate's Join succeeded while another candidate was still untried
C1_Witness ==
    /\ Returned
    /\ Len(trace) > 0
    /\ trace[Len(trace)].type = "join"
    /\ trace[Len(trace)].kind = "candidate"
    /\ trace[Len(trace)].res = "ok"
    /\ Untried # {}

\* ----------------------------------------------------------------- C2
\* C2: Do never issues a Join (candidate or leader-follow) whose destination is
\* the local node's own Raft address, and never tries the entry keyed by the
\* local node id.
C2_SelfSkip ==
    \A i \in Joins :
        /\ trace[i].dest # j.localRaftAddr
        /\ ~(trace[i].kind = "candidate" /\ trace[i].name = j.localNodeID)

C4_NoJoinAfterCancel ==
    \A i \in Joins : ~trace[i].ctxDone

\* ----------------------------------------------------------------- C5
\* C5: if the context is cancelled while Do is in the backoff wait, Do issues no
\* Join afterwards and returns "" with the context's error, not the
\* candidates-exhausted error.
C5_CancelDuringBackoff ==
    cancelAt.pc = "backoff" =>
        /\ pc \in {"backoff", "done"}
        /\ Len(trace) = cancelAt.pos
        /\ trace[Len(trace)].type = "backoff"
        /\ Returned => ret = [addr |-> NoAddr, err |-> CtxErr]

\* Do returned after a cancellation during the backoff, with a candidate still untried
C5_Witness ==
    /\ cancelAt.pc = "backoff"
    /\ Returned
    /\ ret.err = CtxErr
    /\ Untried # {}

\* ----------------------------------------------------------------- C6
\* C6: if every Join issued failed and the context was never cancelled, Do
\* returns "" and a non-nil error whose message contains the name and address of
\* every candidate attempted and the address of every leader followed.
C6_ExhaustionDiagnostic ==
    (Returned /\ ~cancelled /\ NoJoinOk) =>
        /\ ret.addr = NoAddr
        /\ ret.err.kind = "exhausted"
        /\ \A i \in CandidateJoins :
            /\ MentionsName(ret.err, trace[i].name)
            /\ MentionsAddr(ret.err, trace[i].dest)
        /\ \A i \in LeaderJoins : MentionsAddr(ret.err, trace[i].dest)

\* every candidate failed, one of them after a redirect to a leader that is
\* not itself an entry of remoteNodes
C6_Witness ==
    /\ Returned
    /\ ~cancelled
    /\ NoJoinOk
    /\ Cardinality(CandidateJoins) >= 2
    /\ \E i \in LeaderJoins : \A n \in DOMAIN remoteNodes : remoteNodes[n] # trace[i].dest

\* ----------------------------------------------------------------- C7
\* C7: in the candidates-exhausted error every failed Join has its own entry
\* with its target and its own error; a candidate redirected to a leader that
\* also failed still has its own entry next to the leader's.
C7_EveryFailureRecorded ==
    Exhausted =>
        \A i \in FailedJoins :
            \E k \in 1..Len(Detail(ret.err)) :
                /\ Detail(ret.err)[k].addr = trace[i].dest
                /\ Detail(ret.err)[k].err.rpc = i
                /\ trace[i].kind = "candidate" =>
                        /\ Detail(ret.err)[k].tag = "node"
                        /\ Detail(ret.err)[k].name = trace[i].name
\* ----------------------------------------------------------------- C8
\* every entry of remoteNodes other than the local node got a candidate Join,
\* and no Join succeeded
AllTriedAndFailed ==
    /\ NoJoinOk
    /\ \A n \in NonSelf : \E i \in CandidateJoins : trace[i].name = n /\ trace[i].res = "fail"

\* C8 (as stated): whenever the context is cancelled before Do returns and no
\* Join succeeded, Do returns the context's error; Do returns the
\* candidates-exhausted error only when every non-self candidate was tried and
\* failed without the context being cancelled.
C8_CancelVsExhausted ==
    /\ (Returned /\ cancelled /\ NoJoinOk) => ret.err = CtxErr
    /\ Exhausted => (~cancelled /\ AllTriedAndFailed)

\* C8 (amended): whenever a backoff wait of Do begins or goes on with the
\* context cancelled and no Join succeeded, Do returns the context's error and
\* not the candidates-exhausted error; Do returns the candidates-exhausted error
\* only when every non-self candidate was tried and failed and no backoff wait
\* saw the context cancelled.
C8_CancelSeenByWait ==
    /\ (Returned /\ WaitSawCancel /\ NoJoinOk) => ret.err = CtxErr
    /\ Exhausted => (AllTriedAndFailed /\ ~WaitSawCancel)

\* the context was cancelled while a Join was in flight, the Join failed, and
\* Do returned from the backoff with a candidate still untried
C8_Witness ==
    /\ Returned
    /\ cancelAt.pc \in {"join", "leaderJoin"}
    /\ NoJoinOk
    /\ WaitSawCancel
    /\ Untried # {}

\* ----------------------------------------------------------------- C9
CandidateAttempts(n) == {i \in CandidateJoins : trace[i].name = n}

\* C9: no entry of remoteNodes ever gets more than one candidate attempt, and
\* when Do ends with the candidates-exhausted error every entry other than the
\* local node got exactly one, at its own address.
C9_EachCandidateOnce ==
    /\ \A i \in CandidateJoins : trace[i].name \in DOMAIN remoteNodes
    /\ \A n \in DOMAIN remoteNodes : Cardinality(CandidateAttempts(n)) <= 1
    /\ Exhausted =>
        \A n \in NonSelf :
            /\ Cardinality(CandidateAttempts(n)) = 1
            /\ \A i \in CandidateAttempts(n) : trace[i].dest = remoteNodes[n]

\* exhausted over a map holding the local node and two other entries
C9_Witness ==
    /\ Exhausted
    /\ j.localNodeID \in DOMAIN remoteNodes
    /\ Cardinality(NonSelf) >= 2
    /\ Cardinality(CandidateJoins) >= 2

\* ---------------------------------------------------------------- C10
\* C10: with remoteNodes empty or holding only the local node's entry, Do
\* issues no Join, performs no backoff wait, and returns "" with a non-nil error.
C10_EmptyCandidateSet ==
    NonSelf = {} =>
        /\ trace = <<>>
        /\ pc \in {"range", "done"}
        /\ Returned => (ret.addr = NoAddr /\ ret.err.kind = "exhausted")

\* Do returned over a map holding only the local node's entry
C10_Witness ==
    /\ Returned
    /\ DOMAIN remoteNodes = {j.localNodeID}
    /\ visited = {j.localNodeID}
    /\ ret.err # NoErr
\* ---------------------------------------------------------------- C11
\* C11: a failed leader-follow is recorded as a leader failure and is followed
\* by the backoff, not by a return: once it has failed, Do ends only with the
\* context's error after a cancellation, with a later success, or with the
\* candidates-exhausted error when no candidate is left untried.
C11_LeaderFailureNotFatal ==
    \A i \in LeaderJoins :
        trace[i].res = "fail" =>
            /\ \E k \in 1..Len(errors) :
                errors[k] = LeaderFailure(trace[i].dest, JoinErr(trace[i].code, i))
            /\ i < Len(trace)
            /\ trace[i + 1].type = "backoff"
            /\ (Returned /\ i + 1 = Len(trace)) =>
                    \/ cancelled /\ ret.err = CtxErr
                    \/ Exhausted /\ Untried = {}

\* after a failed leader-follow Do went on to try another candidate
C11_Witness ==
    \E i \in LeaderJoins :
        /\ trace[i].res = "fail"
        /\ \E k \in CandidateJoins : k > i
        /\ ~cancelled
\* ---------------------------------------------------------------- C12
\* the three terminal outcomes of Do
Success == ret.addr # NoAddr /\ ret.err = NoErr
CandidatesExhausted == ret.addr = NoAddr /\ ret.err.kind = "exhausted"
ContextCancelled == ret.addr = NoAddr /\ ret.err = CtxErr

\* C12: provided every Join returns, Do terminates, and it terminates in
\* exactly one of success, candidates exhausted, context cancelled.
C12_TerminatesThreeWays ==
    /\ <>Returned
    /\ [](Returned =>
            /\ Success \/ CandidatesExhausted \/ ContextCancelled
            /\ ~(Success /\ CandidatesExhausted)
            /\ ~(Success /\ ContextCancelled)
            /\ ~(CandidatesExhausted /\ ContextCancelled))

\* Do ended exhausted after two candidates, one of them redirected to a leader
C12_Witness ==
    /\ Returned
    /\ CandidatesExhausted
    /\ Cardinality(CandidateJoins) = 2
    /\ Cardinality(LeaderJoins) = 1
    /\ Cardinality(Backoffs) = 2
\* ---------------------------------------------------------------- C13
\* the resolved map is empty, or has exactly one entry and its address is the
\* local node's own Raft address
SingleNodeCase ==
    \/ DOMAIN boot.resolved = {}
    \/ \E n \in DOMAIN boot.resolved :
        DOMAIN boot.resolved = {n} /\ boot.resolved[n] = boot.localRaftAddr

\* C13: in the single-node case the decision layer never calls Joiner.Do (no
\* Join is issued) and bootstraps with the local node as sole founding member;
\* in every other case it calls Joiner.Do with the whole resolved map.
C13_BootstrapOrJoin ==
    /\ boot.phase \in {"bootstrap", "join"} =>
        IF SingleNodeCase
        THEN /\ boot.phase = "bootstrap"
             /\ boot.doCalls = <<>>
             /\ boot.founding = {boot.localName}
             /\ trace = <<>>
        ELSE /\ boot.phase = "join"
             /\ boot.doCalls = <<boot.resolved>>
             /\ boot.founding = {}
    /\ boot.phase \in {"start", "resolved"} => (boot.doCalls = <<>> /\ boot.founding = {})

\* the test's scenario: the one resolved entry is the local node at its own
\* Raft address, and the node bootstrapped
C13_Witness ==
    /\ boot.phase = "bootstrap"
    /\ DOMAIN boot.resolved = {boot.localName}
    /\ boot.resolved[boot.localName] = boot.localRaftAddr

\* ---------------------------------------------------------------- C14
Resolvable == {n \in DOMAIN boot.addresses : boot.addresses[n] # NoAddr}

\* C14: the resolved map's keys are exactly the nodes whose address resolves
\* non-empty, each mapped to "<address>:<its own port>"; its size is the number
\* of resolvable members, and a reader with no members yields the empty map.
C14_ResolvedExactly ==
    boot.phase # "start" =>
        /\ DOMAIN boot.resolved = Resolvable
        /\ \A n \in Resolvable : boot.resolved[n] = <<boot.addresses[n], boot.ports[n]>>
        /\ Cardinality(DOMAIN boot.resolved) = Cardinality(Resolvable)
        /\ DOMAIN boot.addresses = {} => boot.resolved = <<>>

\* three known nodes, one of them unresolvable, the other two on different ports
C14_Witness ==
    /\ boot.phase = "resolved"
    /\ Cardinality(DOMAIN boot.addresses) = 3
    /\ Cardinality(DOMAIN boot.resolved) = 2
    /\ \E n, m \in DOMAIN boot.resolved : boot.resolved[n][2] # boot.resolved[m][2]

\* ---------------------------------------------------------------- C15
\* C15: Do waits the backoff only while another candidate remains to be tried;
\* after the last candidate failed it returns the candidates-exhausted error
\* without a wait, so no cancellation after the last failure yields the
\* context's error.
C15_BackoffOnlyBetween ==
    /\ pc = "backoff" => Untried # {}
    /\ (Returned /\ ret.err = CtxErr) => Untried # {}

C17_ConstantPayload ==
    \A i \in Joins :
        trace[i].req = [id |-> j.localNodeID, address |-> j.localRaftAddr, voter |-> j.voter]

\* a non-voter sent a candidate Join and a leader-follow Join to different addresses
C17_Witness ==
    /\ ~j.voter
    /\ \E i \in CandidateJoins : \E k \in LeaderJoins : trace[i].dest # trace[k].dest

\* ---------------------------------------------------------------- C18
\* C18: no step of Do changes the caller's remoteNodes map or the Joiner's
\* fields (local node id, local Raft address, voter flag).
C18_ReadOnly ==
    [][remoteNodes' = remoteNodes /\ j' = j]_vars

\* Do returned after skipping the local entry and trying another one
C18_Witness ==
    /\ Returned
    /\ j.localNodeID \in visited
    /\ Cardinality(DOMAIN remoteNodes) >= 2
    /\ Joins # {}
    /\ remoteNodes \in RemoteNodeMaps

\* ---------------------------------------------------------------- C19
\* C19: each non-self candidate triggers at most one leader-follow, a
\* leader-follow is never issued after another leader-follow (whatever that one
\* answered), and an invocation issues at most 2 x |non-self entries| Joins.
C19_BoundedRedirects ==
    LET follows == LeaderJoins
    IN  /\ \A i, k \in follows : trace[i].name = trace[k].name => i = k
        /\ \A i \in follows : trace[i].name \in NonSelf
        /\ \A i \in follows : i > 1 /\ trace[i - 1].kind = "candidate"
        /\ Cardinality(Joins) <= 2 * Cardinality(NonSelf)

\* a leader-follow itself failed with ResourceExhausted and Do moved on to the backoff;
\* every candidate was redirected, so the bound 2 x |non-self entries| is met
C19_Witness ==
    /\ \E i \in LeaderJoins :
        /\ trace[i].res = "fail"
        /\ trace[i].code = "ResourceExhausted"
        /\ trace[i + 1].type = "backoff"
    /\ Cardinality(NonSelf) >= 2
    /\ Cardinality(Joins) = 2 * Cardinality(NonSelf)

\* ---------------------------------------------------------------- C20
\* the last Join issued: a backoff is the only thing that can follow it
LastJoin == IF trace[Len(trace)].type = "join" THEN Len(trace) ELSE Len(trace) - 1

\* C20: Do returns a nil error exactly when the last Join it issued returned no
\* error, the address returned then being that Join's destination; with a
\* non-nil error the address returned is "".
C20_ResultMatchesLastJoin ==
    Returned =>
        /\ ret.err = NoErr <=> (trace # <<>> /\ trace[LastJoin].res = "ok")
        /\ ret.err = NoErr => (trace[LastJoin].type = "join" /\ ret.addr = trace[LastJoin].dest)
        /\ ret.err # NoErr => ret.addr = NoAddr
        /\ \A i \in 1..Len(trace) : i > LastJoin => trace[i].type = "backoff"

\* Do returned the address of a followed leader, which is not the candidate's
C20_Witness ==
    /\ Returned
    /\ ret.err = NoErr
    /\ trace[LastJoin].kind = "leader"
    /\ ret.addr # remoteNodes[trace[LastJoin].name]
    /\ Cardinality(Joins) > 2

====
